---- MODULE Spec2Model ----
(***************************************************************************)
(* Session-state core of TrololoBot: the per-user sliding-window           *)
(* RateLimiter (src/main.py) and the per-user ContextManager               *)
(* (src/context_manager.py).                                               *)
(*                                                                         *)
(* Time is a count of ticks; TicksPerSec ticks make one second, so that    *)
(* datetime values with a fractional number of seconds exist in the model. *)
(* Every operation is one synchronous Python call and is one action.       *)
(***************************************************************************)
EXTENDS Integers, Sequences, FiniteSets, TLC

\* ------------------------------------------------------------------ bounds
TicksPerSec == 2        \* clock resolution: ticks per second
MaxActions == 3         \* max_messages is drawn from 1..MaxActions
MaxWindow == 2          \* time_window (seconds) is drawn from 1..MaxWindow
MaxSecondsRL == 5       \* the rate limiter's runs last this many seconds
MaxEntries == 2         \* CONTEXT_MAX_MESSAGES is drawn from 1..MaxEntries
MaxTimeout == 1         \* CONTEXT_TIMEOUT_MINUTES is drawn from 1..MaxTimeout
MaxAccepted == 3        \* accepted add_message calls in the life of one buffer
MaxMinutesCS == 1       \* the store's runs last this many minutes (and a second)
MaxAcceptedPair == 1    \* accepted add_message calls per buffer when two users call
MaxTicksBot == 3        \* ticks a run of the handlers lasts
MaxTicksCtor == 2       \* ticks a run of the unvalidated objects lasts
MaxSweeps == 5          \* runs of cleanup_job in a run of the job queue
MaxRetries == 2         \* the argument retries is drawn from -1..MaxRetries
MaxLabelled == 3        \* CONTEXT_MAX_MESSAGES where the labels of a truncated rendering are read

\* The values a constructor argument or a setting is drawn from when nothing
\* validates it
ConfigValues == {-1, 0, 1}

\* The values CONTEXT_MAX_TOKENS is drawn from
TokenBudgets == {7, 8, 16}

\* The values CONTEXT_MAX_TOKENS is drawn from where several entries are to fit
\* a truncated rendering: one block of a five-letter text fits 8 tokens, two fit 17
LabelBudgets == {8, 17}

\* ------------------------------------------------------------------ config.py
DEFAULT_CONTEXT_MAX_MESSAGES == 10
DEFAULT_CONTEXT_TIMEOUT_MINUTES == 30
DEFAULT_CONTEXT_MAX_TOKENS == 4000
RATE_LIMIT_MESSAGES == 5
RATE_LIMIT_WINDOW == 60

\* ------------------------------------------------------------------ main.py
\* job_queue.run_repeating(cleanup_job, interval=600, first=600)
SweepInterval == 600
SweepTicks == SweepInterval * TicksPerSec

Users == {"u1", "u2"}
Callers == {"u1"}       \* the users whose calls drive the rate limiter's runs

VARIABLES
    now,            \* datetime.now(), in ticks
    max_messages,   \* RateLimiter.max_messages
    time_window,    \* RateLimiter.time_window (seconds)
    user_messages,  \* RateLimiter.user_messages: defaultdict(list), user -> timestamps
    lastOp,         \* the call that was made last, with its arguments and return value
    admitted,       \* history: per user, the instants of the admitted calls still in reach of a window
    pendingRetry,   \* history: the wait time reported right after the latest rejection, until its user calls again
    CONTEXT_MAX_MESSAGES,     \* config.CONTEXT_MAX_MESSAGES
    CONTEXT_TIMEOUT_MINUTES,  \* config.CONTEXT_TIMEOUT_MINUTES
    CONTEXT_MAX_TOKENS,       \* config.CONTEXT_MAX_TOKENS
    user_contexts,        \* ContextManager.user_contexts: dict, user -> list of ContextMessage
    user_last_activity,   \* ContextManager.user_last_activity: dict, user -> datetime
    accepted,       \* history: per user, the entries accepted since the user's buffer was created
    lastAccepted,   \* history: per user, the instant of the last accepted add_message (-1: none)
    expiredSeen,    \* history: the users whose expiry has_context has observed, no add_message accepted since
    threads,        \* the add_message calls in progress, statement by statement: thread -> frame
    handler,        \* the update handler in progress: its kind, user, position and locals
    next_run        \* job_queue: the instant of cleanup_job's next run, in ticks

rlVars == <<max_messages, time_window, user_messages>>
rlHist == <<admitted, pendingRetry>>
csConfig == <<CONTEXT_MAX_MESSAGES, CONTEXT_TIMEOUT_MINUTES, CONTEXT_MAX_TOKENS>>
csVars == <<user_contexts, user_last_activity>>
csHist == <<accepted, lastAccepted>>

auxVars == <<expiredSeen, threads, handler, next_run>>

vars == <<now, lastOp, rlVars, rlHist, csConfig, csVars, csHist, auxVars>>

Threads == {"t1", "t2"}

\* A thread that is not inside add_message
IdleThread == [pc |-> "idle", text |-> <<>>, slice |-> <<>>]

\* No handler is running
IdleHandler == [kind |-> "idle", user |-> "", pc |-> "idle", text |-> <<>>,
                admit |-> "none", reply |-> "none"]

\* Nothing is in progress
AuxInit ==
    /\ expiredSeen = {}
    /\ threads = [t \in Threads |-> IdleThread]
    /\ handler = IdleHandler
    /\ next_run = SweepTicks

\* ------------------------------------------------------------------ helpers
Max(a, b) == IF a >= b THEN a ELSE b

\* min(user_history)
MinOf(s) == CHOOSE x \in {s[i] : i \in DOMAIN s} : \A j \in DOMAIN s : x <= s[j]

\* timedelta(seconds=self.time_window), in ticks
WindowTicks == time_window * TicksPerSec

\* int(x) of a float number of seconds given in ticks: truncation toward zero
IntSeconds(ticks) ==
    IF ticks >= 0 THEN ticks \div TicksPerSec ELSE -((-ticks) \div TicksPerSec)

\* self.user_messages[user_id] as a read: the stored list, or the default []
History(u) == IF u \in DOMAIN user_messages THEN user_messages[u] ELSE <<>>

\* d[k] = v on a dict, creating the key when absent
Put(d, k, v) == [x \in DOMAIN d \cup {k} |-> IF x = k THEN v ELSE d[x]]

\* del d[k]
Del(d, k) == [x \in DOMAIN d \ {k} |-> d[x]]

NoRetry == [active |-> FALSE, user |-> "", at |-> 0, v |-> 0, free |-> 0]

\* A call for user u ends the retry that was pending for u
EndRetry(u) == IF pendingRetry.user = u THEN NoRetry ELSE pendingRetry

\* ------------------------------------------------------------------ RateLimiter
InWindow_NoPrune(s, t) == s

InWindow_KeepsCutoff(s, t) == SelectSeq(s, LAMBDA m : m >= t - WindowTicks)

\* The timestamps is_allowed keeps: msg_time > cutoff_time
InWindow(s, t) == SelectSeq(s, LAMBDA m : m > t - WindowTicks)

LimitReached_OffByOne(kept) == Len(kept) > max_messages

\* len(user_history) >= self.max_messages
LimitReached(kept) == Len(kept) >= max_messages

is_allowed(u) ==
    LET kept == InWindow(History(u), now)
        ok == ~LimitReached(kept)
    IN  /\ user_messages' = Put(user_messages, u, IF ok THEN Append(kept, now) ELSE kept)
        /\ lastOp' = [name |-> "is_allowed", user |-> u, result |-> ok]
        /\ admitted' = [admitted EXCEPT ![u] = IF ok THEN Append(@, now) ELSE @]
        /\ pendingRetry' = EndRetry(u)
        /\ UNCHANGED <<now, max_messages, time_window, csConfig, csVars, csHist>>

\* The value get_wait_time returns for a non-empty history
WaitTime(hist, t) == Max(0, IntSeconds(MinOf(hist) + WindowTicks - t))

get_wait_time(u) ==
    LET hist == History(u)
        w == IF hist = <<>> THEN 0 ELSE WaitTime(hist, now)
        afterReject == /\ lastOp.name = "is_allowed"
                       /\ lastOp.user = u
                       /\ lastOp.result = FALSE
    IN  /\ user_messages' = Put(user_messages, u, hist)
        /\ lastOp' = [name |-> "get_wait_time", user |-> u, result |-> w]
        /\ pendingRetry' =
                IF afterReject
                THEN [active |-> TRUE, user |-> u, at |-> now, v |-> w,
                      free |-> IF hist = <<>> THEN now ELSE MinOf(hist) + WindowTicks]
                ELSE EndRetry(u)
        /\ UNCHANGED <<now, max_messages, time_window, admitted, csConfig, csVars, csHist>>

\* Time passes by d ticks, up to the horizon of the run.
Tick(d, horizon) ==
    /\ now + d <= horizon
    /\ now' = now + d
    /\ lastOp' = [name |-> "tick", user |-> "", result |-> d]
    \* admissions older than a window can never again lie in a trailing window
    /\ admitted' = [u \in Users |->
                      SelectSeq(admitted[u], LAMBDA m : m >= now' - WindowTicks)]
    /\ UNCHANGED <<rlVars, pendingRetry, csConfig, csVars, csHist>>

\* RateLimiter(max_messages, time_window), with the parameters drawn from the given sets
RateLimiterInit(maxSet, windowSet) ==
    /\ max_messages \in maxSet
    /\ time_window \in windowSet
    /\ user_messages = <<>>
    /\ admitted = [u \in Users |-> <<>>]
    /\ pendingRetry = NoRetry

\* ContextManager(), under a configuration drawn from the given sets
ContextManagerInit(entriesSet, timeoutSet, tokensSet) ==
    /\ CONTEXT_MAX_MESSAGES \in entriesSet
    /\ CONTEXT_TIMEOUT_MINUTES \in timeoutSet
    /\ CONTEXT_MAX_TOKENS \in tokensSet
    /\ user_contexts = <<>>
    /\ user_last_activity = <<>>
    /\ accepted = [u \in Users |-> <<>>]
    /\ lastAccepted = [u \in Users |-> -1]

\* A rate limiter of any small configuration, beside the store as it is deployed
InitRL ==
    /\ now = 0
    /\ lastOp = [name |-> "init", user |-> "", result |-> 0]
    /\ AuxInit
    /\ RateLimiterInit(1..MaxActions, 1..MaxWindow)
    /\ ContextManagerInit({DEFAULT_CONTEXT_MAX_MESSAGES}, {DEFAULT_CONTEXT_TIMEOUT_MINUTES},
                          {DEFAULT_CONTEXT_MAX_TOKENS})

\* The rate limiter driven by the calls of one user, as time passes tick by tick.
NextRL ==
    \/ \E u \in Callers : is_allowed(u) /\ UNCHANGED auxVars
    \/ \E u \in Callers : get_wait_time(u) /\ UNCHANGED auxVars
    \/ Tick(1, MaxSecondsRL * TicksPerSec) /\ UNCHANGED auxVars

SpecRL == InitRL /\ [][NextRL]_vars

\* ------------------------------------------------------------------ RateLimiter: claims
\* The admitted calls of u inside the trailing window (t - window, t]
AdmittedInWindow(u, t) ==
    {i \in DOMAIN admitted[u] :
        admitted[u][i] > t - time_window * TicksPerSec /\ admitted[u][i] <= t}

\* C1: for each user, at every instant the number of calls that returned true
\* within the trailing time_window seconds (the interval (now - window, now])
\* is at most max_messages.
C1_WindowBound ==
    \A u \in Users : Cardinality(AdmittedInWindow(u, now)) <= max_messages

\* The window is full, it has slid past an older admission, and the call made
\* at this instant was admitted into the slot that admission freed.
C1_Witness ==
    \E u \in Users :
        /\ lastOp.name = "is_allowed" /\ lastOp.user = u /\ lastOp.result = TRUE
        /\ Cardinality(AdmittedInWindow(u, now)) = max_messages
        /\ \E i \in DOMAIN admitted[u] :
              admitted[u][i] = now - time_window * TicksPerSec

\* C2: is_allowed(u) drops every timestamp t <= now - window; then, if fewer
\* than max_messages remain, it appends exactly one timestamp, now, and returns
\* true; otherwise it returns false and records nothing.
C2_AdmitStep ==
    [][\A u \in Users :
         (lastOp'.name = "is_allowed" /\ lastOp'.user = u) =>
            LET rem == SelectSeq(History(u),
                           LAMBDA t : ~(t <= now - time_window * TicksPerSec))
            IN  IF Len(rem) < max_messages
                THEN lastOp'.result = TRUE /\ user_messages'[u] = Append(rem, now)
                ELSE lastOp'.result = FALSE /\ user_messages'[u] = rem]_vars

\* A burst: the call was rejected with exactly max_messages timestamps on
\* record, all of them made at this very instant.
C2_Witness ==
    \E u \in Users :
        /\ lastOp.name = "is_allowed" /\ lastOp.user = u /\ lastOp.result = FALSE
        /\ u \in DOMAIN user_messages
        /\ Len(user_messages[u]) = max_messages
        /\ \A i \in DOMAIN user_messages[u] : user_messages[u][i] = now

\* math.ceil of a number of seconds given in ticks
CeilSeconds(ticks) == -((-ticks) \div TicksPerSec)

\* C3: get_wait_time returns 0 for an empty history and otherwise
\* ceil(max(0, oldest + window - now)): a fractional remainder is rounded up.
C3_WaitIsCeiling ==
    lastOp.name = "get_wait_time" =>
        LET h == History(lastOp.user)
        IN  lastOp.result =
                IF h = <<>> THEN 0
                ELSE CeilSeconds(Max(0, MinOf(h) + time_window * TicksPerSec - now))

\* C4: after a rejection and a get_wait_time that returned v, with no call for
\* the user in between, is_allowed exactly v seconds later returns true, and
\* is_allowed strictly earlier (other than at the instant the slot frees up)
\* returns false.
C4_RetryAfterWait ==
    [][\A u \in Users :
         (lastOp'.name = "is_allowed" /\ lastOp'.user = u
            /\ pendingRetry.active /\ pendingRetry.user = u) =>
            /\ (now = pendingRetry.at + pendingRetry.v * TicksPerSec
                    => lastOp'.result = TRUE)
            /\ (now < pendingRetry.at + pendingRetry.v * TicksPerSec
                  /\ now # pendingRetry.free
                    => lastOp'.result = FALSE)]_vars

\* C5: the wait time reported at the moment of a rejection lies in (0, window].
C5_WaitAfterReject ==
    \A u \in Users :
        (lastOp.name = "get_wait_time" /\ lastOp.user = u
            /\ pendingRetry.active /\ pendingRetry.user = u /\ pendingRetry.at = now) =>
                (0 < lastOp.result /\ lastOp.result <= time_window)

\* C6: get_wait_time leaves the rate limiter's state unchanged, the set of
\* users with a record included.
C6_WaitReadOnly ==
    [][lastOp'.name = "get_wait_time" => UNCHANGED user_messages]_vars

\* ------------------------------------------------------------------ text
\* A str is a sequence of one-character strings.
Whitespace == {" ", "\n", "\t"}

RECURSIVE LStrip(_)
LStrip(s) == IF s # <<>> /\ Head(s) \in Whitespace THEN LStrip(Tail(s)) ELSE s

RECURSIVE RStrip(_)
RStrip(s) ==
    IF s # <<>> /\ s[Len(s)] \in Whitespace THEN RStrip(SubSeq(s, 1, Len(s) - 1)) ELSE s

\* str.strip()
Strip(s) == RStrip(LStrip(s))

\* s[:n]
\* s[:n]; a negative n counts from the end, as Python's slices do
Prefix(s, n) ==
    SubSeq(s, 1, IF n < 0 THEN Len(s) + n ELSE IF Len(s) < n THEN Len(s) ELSE n)

\* s[-n:]; for n = 0 that is s[0:], the whole list, and for n < 0 it is s[|n|:]
LastN(s, n) ==
    IF n <= 0 THEN SubSeq(s, 1 - n, Len(s))
    ELSE IF Len(s) <= n THEN s ELSE SubSeq(s, Len(s) - n + 1, Len(s))

DigitChar(d) == <<"0", "1", "2", "3", "4", "5", "6", "7", "8", "9">>[d + 1]

\* str(n) for n >= 0
RECURSIVE Digits(_)
Digits(n) == IF n < 10 THEN <<DigitChar(n)>> ELSE Digits(n \div 10) \o <<DigitChar(n % 10)>>

TwoDigits(n) == <<DigitChar(n \div 10), DigitChar(n % 10)>>

\* timestamp.strftime("%H:%M:%S"); the clock starts at midnight
TimeStr(t) ==
    LET sec == (t \div TicksPerSec) % 86400
    IN  TwoDigits(sec \div 3600) \o <<":">> \o TwoDigits((sec % 3600) \div 60)
            \o <<":">> \o TwoDigits(sec % 60)

\* "[Сообщение " (the nine Cyrillic letters stand as nine Latin ones)
BlockHead == <<"[", "S", "o", "o", "b", "s", "e", "n", "i", "e", " ">>

\* f"[Сообщение {i}, {time_str}]\n{msg.text}"
Block(i, msg) ==
    BlockHead \o Digits(i) \o <<",", " ">> \o TimeStr(msg.timestamp) \o <<"]", "\n">> \o msg.text

Separator == <<"\n", "\n", "-", "-", "-", "\n", "\n">>

\* "\n\n---\n\n".join(parts)
RECURSIVE Join(_)
Join(parts) ==
    IF parts = <<>> THEN <<>>
    ELSE IF Len(parts) = 1 THEN parts[1]
    ELSE parts[1] \o Separator \o Join(Tail(parts))

\* list.index(x) + 1: the position of the first element equal to x
IndexOf(s, x) == CHOOSE i \in DOMAIN s : s[i] = x /\ \A j \in 1..(i - 1) : s[j] # x

\* ------------------------------------------------------------------ ContextManager
MinTextLength == 5
CharsPerToken == 4

\* The texts add_message is called with
Texts == {
    <<>>,
    <<" ", " ", " ", " ", " ", " ">>,
    <<" ", "a", "b", "c", "d">>,
    <<"m", "s", "g", "-", "1">>,
    <<" ", "m", "s", "g", "-", "2", "\n">> }

\* The message ids add_message is called with
MessageIds == {1}

\* timedelta(minutes=config.CONTEXT_TIMEOUT_MINUTES), in ticks
TimeoutTicks == CONTEXT_TIMEOUT_MINUTES * 60 * TicksPerSec

TooShort_NoStrip(text) == text = <<>> \/ Len(text) < MinTextLength

\* not text or len(text.strip()) < 5
TooShort(text) == text = <<>> \/ Len(Strip(text)) < MinTextLength

CutToMax_KeepsOldest(buf) ==
    IF Len(buf) > CONTEXT_MAX_MESSAGES THEN SubSeq(buf, 1, CONTEXT_MAX_MESSAGES) ELSE buf

\* self.user_contexts[user_id][-config.CONTEXT_MAX_MESSAGES:] when the list is too long
CutToMax(buf) ==
    IF Len(buf) > CONTEXT_MAX_MESSAGES THEN LastN(buf, CONTEXT_MAX_MESSAGES) ELSE buf

\* add_message with the list created before the length test
add_message_CreatesFirst(u, text, mid) ==
    LET message == [text |-> Strip(text), timestamp |-> now, message_id |-> mid]
        old == IF u \in DOMAIN user_contexts THEN user_contexts[u] ELSE <<>>
    IN  /\ user_contexts' = Put(user_contexts, u,
                                IF TooShort(text) THEN old
                                ELSE CutToMax(Append(old, message)))
        /\ user_last_activity' = IF TooShort(text) THEN user_last_activity
                                 ELSE Put(user_last_activity, u, now)
        /\ accepted' = IF TooShort(text) THEN accepted
                       ELSE [accepted EXCEPT ![u] = Append(@, message)]
        /\ lastAccepted' = IF TooShort(text) THEN lastAccepted
                           ELSE [lastAccepted EXCEPT ![u] = now]
        /\ lastOp' = [name |-> "add_message", user |-> u, text |-> text,
                      stored |-> ~TooShort(text), afterExpiry |-> u \in expiredSeen,
                      result |-> "None"]
        /\ UNCHANGED <<now, rlVars, rlHist, csConfig>>

\* The two datetime.now() reads of one call (timestamp, last activity) fall in one tick.
add_message(u, text, mid) ==
    IF TooShort(text)
    THEN /\ lastOp' = [name |-> "add_message", user |-> u, text |-> text,
                       stored |-> FALSE, afterExpiry |-> u \in expiredSeen,
                       result |-> "None"]
         /\ UNCHANGED <<now, rlVars, rlHist, csConfig, csVars, csHist>>
    ELSE LET message == [text |-> Strip(text), timestamp |-> now, message_id |-> mid]
             old == IF u \in DOMAIN user_contexts THEN user_contexts[u] ELSE <<>>
         IN  /\ user_contexts' = Put(user_contexts, u, CutToMax(Append(old, message)))
             /\ user_last_activity' = Put(user_last_activity, u, now)
             /\ accepted' = [accepted EXCEPT ![u] = Append(@, message)]
             /\ lastAccepted' = [lastAccepted EXCEPT ![u] = now]
             /\ lastOp' = [name |-> "add_message", user |-> u, text |-> text,
                           stored |-> TRUE, afterExpiry |-> u \in expiredSeen,
                           result |-> "None"]
             /\ UNCHANGED <<now, rlVars, rlHist, csConfig>>

_is_context_expired_AtTimeout(u) ==
    IF u \notin DOMAIN user_last_activity THEN TRUE
    ELSE now - user_last_activity[u] >= TimeoutTicks

_is_context_expired_Reversed(u) ==
    IF u \notin DOMAIN user_last_activity THEN TRUE
    ELSE user_last_activity[u] - now > TimeoutTicks

_is_context_expired(u) ==
    IF u \notin DOMAIN user_last_activity THEN TRUE
    ELSE now - user_last_activity[u] > TimeoutTicks

\* What clear_context(u) does to the store
ClearEffect_KeepsActivity(us) ==
    /\ user_contexts' = [x \in DOMAIN user_contexts \ us |-> user_contexts[x]]
    /\ accepted' = [x \in Users |-> IF x \in us THEN <<>> ELSE accepted[x]]
    /\ UNCHANGED <<user_last_activity, lastAccepted>>

ClearEffect(us) ==
    /\ user_contexts' = [x \in DOMAIN user_contexts \ us |-> user_contexts[x]]
    /\ user_last_activity' = [x \in DOMAIN user_last_activity \ us |-> user_last_activity[x]]
    /\ accepted' = [x \in Users |-> IF x \in us THEN <<>> ELSE accepted[x]]
    /\ UNCHANGED lastAccepted

clear_context_Everyone(u) ==
    /\ ClearEffect(DOMAIN user_contexts \cup DOMAIN user_last_activity)
    /\ lastOp' = [name |-> "clear_context", user |-> u, result |-> "None"]
    /\ UNCHANGED <<now, rlVars, rlHist, csConfig>>

clear_context(u) ==
    /\ ClearEffect({u})
    /\ lastOp' = [name |-> "clear_context", user |-> u, result |-> "None"]
    /\ UNCHANGED <<now, rlVars, rlHist, csConfig>>

\* user_id in self.user_contexts and self.user_contexts[user_id] is non-empty
HasBuffer(u) == u \in DOMAIN user_contexts /\ user_contexts[u] # <<>>

\* has_context(u) finds an expired buffer, which it clears
FindsExpired(u) == HasBuffer(u) /\ _is_context_expired(u)

\* The store after has_context(u) or the head of get_context_text(u)
LazyExpiry_Touches(u) ==
    IF FindsExpired(u) THEN ClearEffect({u})
    ELSE /\ user_last_activity' = IF HasBuffer(u) THEN Put(user_last_activity, u, now)
                                                  ELSE user_last_activity
         /\ UNCHANGED <<user_contexts, csHist>>

LazyExpiry_ReportsOnly(u) == UNCHANGED <<csVars, csHist>>

LazyExpiry(u) ==
    IF FindsExpired(u) THEN ClearEffect({u}) ELSE UNCHANGED <<csVars, csHist>>

has_context(u) ==
    /\ LazyExpiry(u)
    /\ lastOp' = [name |-> "has_context", user |-> u, cleared |-> FindsExpired(u),
                  result |-> (HasBuffer(u) /\ ~_is_context_expired(u))]
    /\ UNCHANGED <<now, rlVars, rlHist, csConfig>>

get_message_count(u) ==
    /\ LazyExpiry(u)
    /\ lastOp' = [name |-> "get_message_count", user |-> u, cleared |-> FindsExpired(u),
                  result |-> IF HasBuffer(u) /\ ~_is_context_expired(u)
                             THEN Len(user_contexts[u]) ELSE 0]
    /\ UNCHANGED <<now, rlVars, rlHist, csConfig>>

\* The rendering of all messages, labelled 1..len
FullText(messages) == Join([i \in 1..Len(messages) |-> Block(i, messages[i])])

\* The rendering of messages[-i:] as _truncate_context labels it
SuffixText(messages, i) ==
    LET tail == LastN(messages, i)
    IN  Join([k \in 1..i |->
                Block(Len(messages) - i + (IndexOf(tail, tail[k]) - 1) + 1, tail[k])])

\* The loop of _truncate_context from i downwards, and what follows it
RECURSIVE TruncateFrom(_, _, _)
TruncateFrom(messages, i, max_chars) ==
    IF i = 0
    THEN IF messages # <<>> THEN Prefix(messages[Len(messages)].text, max_chars) ELSE <<>>
    ELSE IF Len(SuffixText(messages, i)) <= max_chars
         THEN SuffixText(messages, i)
         ELSE TruncateFrom(messages, i - 1, max_chars)

_truncate_context(messages, max_tokens) ==
    TruncateFrom(messages, Len(messages), max_tokens * CharsPerToken)

\* The text get_context_text returns for a live buffer
ContextText(messages) ==
    LET context_text == FullText(messages)
        estimated_tokens == Len(context_text) \div CharsPerToken
    IN  IF estimated_tokens > CONTEXT_MAX_TOKENS
        THEN _truncate_context(messages, CONTEXT_MAX_TOKENS)
        ELSE context_text

Absent == [absent |-> TRUE, text |-> <<>>]

\* What get_context_text(u) reports: whether it cleared an expired buffer, whether
\* it repeats the call before it, and the text it returns
RenderOp(u) ==
    [name |-> "get_context_text", user |-> u, cleared |-> FindsExpired(u),
     again |-> (lastOp.name = "get_context_text" /\ lastOp.user = u),
     result |-> IF HasBuffer(u) /\ ~_is_context_expired(u)
                THEN [absent |-> FALSE, text |-> ContextText(user_contexts[u])]
                ELSE Absent]

get_context_text_Touches(u) ==
    /\ IF FindsExpired(u)
       THEN ClearEffect({u})
       ELSE /\ user_last_activity' =
                  IF HasBuffer(u) THEN Put(user_last_activity, u, now)
                                  ELSE user_last_activity
            /\ UNCHANGED <<user_contexts, csHist>>
    /\ lastOp' = RenderOp(u)
    /\ UNCHANGED <<now, rlVars, rlHist, csConfig>>

get_context_text(u) ==
    /\ LazyExpiry(u)
    /\ lastOp' = RenderOp(u)
    /\ UNCHANGED <<now, rlVars, rlHist, csConfig>>

cleanup_expired_contexts_ClearsAll ==
    /\ ClearEffect(DOMAIN user_contexts)
    /\ lastOp' = [name |-> "cleanup_expired_contexts", user |-> "",
                  removed |-> DOMAIN user_contexts, result |-> "None"]
    /\ UNCHANGED <<now, rlVars, rlHist, csConfig>>

cleanup_expired_contexts ==
    LET expired_users == {u \in DOMAIN user_contexts : _is_context_expired(u)}
    IN  /\ ClearEffect(expired_users)
        /\ lastOp' = [name |-> "cleanup_expired_contexts", user |-> "",
                      removed |-> expired_users, result |-> "None"]
        /\ UNCHANGED <<now, rlVars, rlHist, csConfig>>

\* A store of any small configuration, beside the rate limiter as it is deployed
InitCS ==
    /\ now = 0
    /\ lastOp = [name |-> "init", user |-> "", result |-> 0]
    /\ AuxInit
    /\ RateLimiterInit({RATE_LIMIT_MESSAGES}, {RATE_LIMIT_WINDOW})
    /\ ContextManagerInit(1..MaxEntries, 1..MaxTimeout, TokenBudgets)

\* expiredSeen after a call on the store: has_context (also inside
\* get_message_count) that found u expired adds u, an accepted add_message removes u
SeenAfter(op) ==
    CASE op.name \in {"has_context", "get_message_count"} /\ op.cleared ->
            expiredSeen \cup {op.user}
      [] op.name = "add_message" /\ op.stored -> expiredSeen \ {op.user}
      [] OTHER -> expiredSeen

\* A call on the store made outside any handler or thread
StoreCall == expiredSeen' = SeenAfter(lastOp') /\ UNCHANGED <<threads, handler, next_run>>

\* The store driven by the calls of one user and the periodic sweep, while time
\* passes in steps of a minute or a minute and a tick.
NextCS ==
    \/ \E u \in Callers, text \in Texts, mid \in MessageIds :
          Len(accepted[u]) < MaxAccepted /\ add_message(u, text, mid) /\ StoreCall
    \/ \E u \in Callers : get_context_text(u) /\ StoreCall
    \/ \E u \in Callers : clear_context(u) /\ StoreCall
    \/ \E u \in Callers : has_context(u) /\ StoreCall
    \/ \E u \in Callers : get_message_count(u) /\ StoreCall
    \/ cleanup_expired_contexts /\ StoreCall
    \/ \E d \in {60 * TicksPerSec, 60 * TicksPerSec + 1} :
          Tick(d, (MaxMinutesCS * 60 + 1) * TicksPerSec) /\ UNCHANGED auxVars

SpecCS == InitCS /\ [][NextCS]_vars

\* ------------------------------------------------------------------ ContextManager: claims
\* C7: a user's buffer never holds more than CONTEXT_MAX_MESSAGES entries (nor
\* does get_message_count report more), and it is exactly the most recent
\* CONTEXT_MAX_MESSAGES accepted entries, in the order they were appended.
C7_BufferBound ==
    /\ \A u \in DOMAIN user_contexts :
          LET log == accepted[u]
              n == IF Len(log) < CONTEXT_MAX_MESSAGES THEN Len(log) ELSE CONTEXT_MAX_MESSAGES
          IN  /\ Len(user_contexts[u]) <= CONTEXT_MAX_MESSAGES
              /\ user_contexts[u] = SubSeq(log, Len(log) - n + 1, Len(log))
    /\ lastOp.name = "get_message_count" => lastOp.result <= CONTEXT_MAX_MESSAGES

\* More entries were accepted than fit: the buffer is full, its entries differ
\* from one another, and the entry that was dropped differs from the one now first.
C7_Witness ==
    \E u \in DOMAIN user_contexts :
        /\ Len(accepted[u]) > CONTEXT_MAX_MESSAGES
        /\ CONTEXT_MAX_MESSAGES >= 2
        /\ Len(user_contexts[u]) = CONTEXT_MAX_MESSAGES
        /\ user_contexts[u][1] # user_contexts[u][2]
        /\ accepted[u][1] # user_contexts[u][1]

\* C8: add_message with an empty text, or one whose stripped length is below 5,
\* changes nothing: no buffer is created, no entry added, no activity recorded,
\* and the call returns normally.
C8_ShortTextNoOp ==
    [][(lastOp'.name = "add_message"
          /\ (lastOp'.text = <<>> \/ Len(Strip(lastOp'.text)) < 5)) =>
            /\ UNCHANGED <<user_contexts, user_last_activity>>
            /\ lastOp'.result = "None"]_vars

\* A text of five characters or more that strips to fewer than five was offered
\* by a user who has no buffer, and none was created.
C8_Witness ==
    /\ lastOp.name = "add_message"
    /\ Len(lastOp.text) >= 5
    /\ Len(Strip(lastOp.text)) < 5
    /\ Strip(lastOp.text) # <<>>
    /\ lastOp.user \notin DOMAIN user_contexts
    /\ lastOp.user \notin DOMAIN user_last_activity

\* C9: has_context(u) returns true iff u has a non-empty buffer whose age,
\* now - lastActivity, is at most the timeout; a buffer it finds older than that
\* is removed together with its activity record; a live buffer is left as it is.
C9_HasContext ==
    [][\A u \in Users :
         (lastOp'.name = "has_context" /\ lastOp'.user = u) =>
            LET stored == u \in DOMAIN user_contexts /\ Len(user_contexts[u]) > 0
                live == /\ stored
                        /\ u \in DOMAIN user_last_activity
                        /\ now - user_last_activity[u]
                              <= CONTEXT_TIMEOUT_MINUTES * 60 * TicksPerSec
            IN  /\ lastOp'.result = live
                /\ (stored /\ ~live) =>
                      (u \notin DOMAIN user_contexts' /\ u \notin DOMAIN user_last_activity')
                /\ live => UNCHANGED <<user_contexts, user_last_activity>>]_vars

\* has_context answered true for a buffer that is exactly the timeout old.
C9_Witness ==
    /\ lastOp.name = "has_context"
    /\ lastOp.result = TRUE
    /\ lastOp.user \in DOMAIN user_last_activity
    /\ now - user_last_activity[lastOp.user] = CONTEXT_TIMEOUT_MINUTES * 60 * TicksPerSec

\* C10: once more than the timeout has passed since a user's last accepted
\* add_message, has_context returns false, get_message_count returns 0 and
\* get_context_text returns None for that user, whether or not the sweep has run.
C10_LazyExpiry ==
    [][\A u \in Users :
         (/\ lastOp'.name \in {"has_context", "get_message_count", "get_context_text"}
          /\ lastOp'.user = u
          /\ lastAccepted[u] >= 0
          /\ now - lastAccepted[u] > CONTEXT_TIMEOUT_MINUTES * 60 * TicksPerSec) =>
            CASE lastOp'.name = "has_context" -> lastOp'.result = FALSE
              [] lastOp'.name = "get_message_count" -> lastOp'.result = 0
              [] OTHER -> lastOp'.result.absent]_vars

\* get_context_text found the expired buffer still stored (no sweep had removed
\* it), removed it and returned None.
C10_Witness ==
    /\ lastOp.name = "get_context_text"
    /\ lastOp.cleared
    /\ lastOp.result.absent
    /\ lastAccepted[lastOp.user] >= 0
    /\ lastOp.user \notin DOMAIN user_contexts

\* ------------------------------------------------------------------ the sweep over two users
\* The text of the two users' messages
SweepText == <<"m", "s", "g", "-", "1">>

\* A store of any small configuration, beside the rate limiter as it is deployed
InitSweep ==
    /\ now = 0
    /\ lastOp = [name |-> "init", user |-> "", result |-> 0]
    /\ AuxInit
    /\ RateLimiterInit({RATE_LIMIT_MESSAGES}, {RATE_LIMIT_WINDOW})
    /\ ContextManagerInit(1..MaxEntries, 1..MaxTimeout, {DEFAULT_CONTEXT_MAX_TOKENS})

\* Two users append at different times and the periodic sweep (cleanup_job) runs.
NextSweep ==
    \/ \E u \in Users, mid \in MessageIds :
          Len(accepted[u]) < MaxAcceptedPair /\ add_message(u, SweepText, mid) /\ StoreCall
    \/ \E u \in Users : has_context(u) /\ StoreCall
    \/ cleanup_expired_contexts /\ StoreCall
    \/ \E d \in {60 * TicksPerSec, 60 * TicksPerSec + 1} :
          Tick(d, (MaxMinutesCS * 60 + 1) * TicksPerSec) /\ UNCHANGED auxVars

SpecSweep == InitSweep /\ [][NextSweep]_vars

\* The users the sweep has to remove: tracked, and older than the timeout
SweepDue ==
    {u \in DOMAIN user_contexts :
        u \in DOMAIN user_last_activity =>
            now - user_last_activity[u] > CONTEXT_TIMEOUT_MINUTES * 60 * TicksPerSec}

\* What the sweep does to the store: exactly the due users lose their buffer and
\* their activity record, every other user's are as before
SweepRemovesDue ==
    /\ DOMAIN user_contexts' = DOMAIN user_contexts \ SweepDue
    /\ DOMAIN user_last_activity' = DOMAIN user_last_activity \ SweepDue
    /\ \A u \in DOMAIN user_contexts' : user_contexts'[u] = user_contexts[u]
    /\ \A u \in DOMAIN user_last_activity' : user_last_activity'[u] = user_last_activity[u]

\* C11 (as claimed): cleanup_expired_contexts removes exactly the users older than
\* the timeout, leaves the others unchanged, and returns the number it removed.
C11_SweepReturnsCount ==
    [][lastOp'.name = "cleanup_expired_contexts" =>
          /\ SweepRemovesDue
          /\ lastOp'.result # "None"
          /\ lastOp'.result = Cardinality(SweepDue)]_vars

\* C11 (amended): cleanup_expired_contexts removes exactly the users older than
\* the timeout, leaves the others unchanged, and returns None.
C11_SweepRemovesExpired ==
    [][lastOp'.name = "cleanup_expired_contexts" =>
          /\ SweepRemovesDue
          /\ lastOp'.removed = SweepDue
          /\ lastOp'.result = "None"]_vars

\* One sweep removed one user and left the other, whose buffer is not yet expired.
C11_Witness ==
    /\ lastOp.name = "cleanup_expired_contexts"
    /\ Cardinality(lastOp.removed) = 1
    /\ \E u \in DOMAIN user_contexts :
          /\ u \notin lastOp.removed
          /\ now - user_last_activity[u] <= CONTEXT_TIMEOUT_MINUTES * 60 * TicksPerSec

\* ------------------------------------------------------------------ rendering within the budget
\* The character budget of a rendering (max_chars of _truncate_context)
maxRenderedSize == CONTEXT_MAX_TOKENS * CharsPerToken

\* The last call was a get_context_text that returned a text
Rendered == lastOp.name = "get_context_text" /\ ~lastOp.result.absent

\* C12: the text get_context_text returns for a live, non-empty buffer is never
\* longer than maxRenderedSize, also when the full rendering is one character over.
C12_RenderWithinBudget ==
    Rendered => Len(lastOp.result.text) <= maxRenderedSize

\* The sizes i of the trailing suffixes of messages whose rendering fits the budget
FittingSuffixes(messages) ==
    {i \in 1..Len(messages) : Len(SuffixText(messages, i)) <= maxRenderedSize}

\* C13: when the full rendering is longer than the budget, get_context_text
\* returns the rendering of the longest trailing suffix that fits, and the newest
\* entry's bare text cut to the budget when not even one labelled entry fits.
C13_MaximalSuffix ==
    Rendered /\ Len(FullText(user_contexts[lastOp.user])) > maxRenderedSize =>
        LET messages == user_contexts[lastOp.user]
            fitting == FittingSuffixes(messages)
        IN  lastOp.result.text =
                IF fitting # {}
                THEN SuffixText(messages, CHOOSE i \in fitting : \A j \in fitting : j <= i)
                ELSE Prefix(messages[Len(messages)].text, maxRenderedSize)

\* C14: get_context_text changes neither the entries nor the activity record of a
\* buffer that is not expired, and called twice in succession for the same user
\* it returns the same output both times.
C14_RenderPure ==
    [][lastOp'.name = "get_context_text" =>
          /\ ~lastOp'.cleared =>
                user_contexts' = user_contexts /\ user_last_activity' = user_last_activity
          /\ lastOp'.again => lastOp'.result = lastOp.result]_vars

\* A second get_context_text in succession has returned the text of a buffer of
\* two entries, some time after the last add_message.
C14_Witness ==
    /\ Rendered
    /\ lastOp.again
    /\ Len(user_contexts[lastOp.user]) >= 2
    /\ now > user_last_activity[lastOp.user]

\* ------------------------------------------------------------------ clearing
\* C15: clear_context(u) always returns, leaving u without buffer and without
\* activity record whatever there was before; a second clear_context(u) changes
\* nothing, and right after it has_context(u) is false and get_message_count(u) 0.
C15_ClearIdempotent ==
    [][/\ lastOp'.name = "clear_context" =>
             /\ lastOp'.user \notin DOMAIN user_contexts'
             /\ lastOp'.user \notin DOMAIN user_last_activity'
             /\ lastOp'.result = "None"
             /\ (lastOp.name = "clear_context" /\ lastOp.user = lastOp'.user) =>
                    user_contexts' = user_contexts /\ user_last_activity' = user_last_activity
       /\ (lastOp.name = "clear_context" /\ lastOp'.user = lastOp.user) =>
             /\ lastOp'.name = "has_context" => lastOp'.result = FALSE
             /\ lastOp'.name = "get_message_count" => lastOp'.result = 0]_vars

\* clear_context has returned for a user the store had never heard of.
C15_Witness ==
    /\ lastOp.name = "clear_context"
    /\ lastAccepted[lastOp.user] = -1
    /\ lastOp.user \notin DOMAIN user_contexts \cup DOMAIN user_last_activity

\* ------------------------------------------------------------------ a fresh buffer after expiry
\* C16: once has_context has found a user's buffer expired (and returned false),
\* the next accepted add_message for that user leaves a buffer of exactly the one
\* new entry, so that the message count is 1.
C16_FreshAfterExpiry ==
    [][(lastOp'.name = "add_message" /\ lastOp'.stored /\ lastOp'.user \in expiredSeen) =>
          LET u == lastOp'.user
          IN  /\ u \in DOMAIN user_contexts'
              /\ Len(user_contexts'[u]) = 1
              /\ user_contexts'[u][1].text = Strip(lastOp'.text)
              /\ user_contexts'[u][1].timestamp = now
              /\ user_last_activity'[u] = now]_vars

\* An add_message was accepted for a user whose earlier buffer has_context had
\* found expired.
C16_Witness ==
    /\ lastOp.name = "add_message"
    /\ lastOp.stored
    /\ lastOp.afterExpiry
    /\ Len(user_contexts[lastOp.user]) = 1

\* ------------------------------------------------------------------ the promise of /start
\* C20: the context is cleared automatically when it reaches CONTEXT_MAX_MESSAGES
\* messages: after the accepted add_message that brings the buffer to that many
\* entries the user has no context.
C20_ClearedAtMax ==
    [][(lastOp'.name = "add_message" /\ lastOp'.stored) =>
          LET u == lastOp'.user
              before == IF u \in DOMAIN user_contexts THEN Len(user_contexts[u]) ELSE 0
          IN  before + 1 >= CONTEXT_MAX_MESSAGES =>
                 (u \notin DOMAIN user_contexts' \/ user_contexts'[u] = <<>>)]_vars

\* ------------------------------------------------------------------ construction
\* RateLimiter(max_messages, time_window) and ContextManager() under any small
\* configuration, positive or not: __init__ stores what it is given.
InitCtor ==
    /\ now = 0
    /\ lastOp = [name |-> "init", user |-> "", result |-> 0]
    /\ AuxInit
    /\ RateLimiterInit(ConfigValues, ConfigValues)
    /\ ContextManagerInit(ConfigValues, ConfigValues, ConfigValues)

\* The objects in use by one user.
NextCtor ==
    \/ \E u \in Callers :
          Len(admitted[u]) < MaxWindow /\ is_allowed(u) /\ UNCHANGED auxVars
    \/ \E u \in Callers : get_wait_time(u) /\ UNCHANGED auxVars
    \/ \E u \in Callers, mid \in MessageIds :
          Len(accepted[u]) < MaxEntries /\ add_message(u, SweepText, mid) /\ StoreCall
    \/ \E u \in Callers : get_context_text(u) /\ StoreCall
    \/ \E u \in Callers : get_message_count(u) /\ StoreCall
    \/ Tick(1, MaxTicksCtor) /\ UNCHANGED auxVars

SpecCtor == InitCtor /\ [][NextCtor]_vars

\* C18: an object constructed with a non-positive setting is never usable: every
\* call that returns was made on objects whose settings are all positive.
C18_PositiveConfig ==
    lastOp.name # "init" =>
        /\ max_messages > 0
        /\ time_window > 0
        /\ CONTEXT_MAX_MESSAGES > 0
        /\ CONTEXT_TIMEOUT_MINUTES > 0
        /\ CONTEXT_MAX_TOKENS > 0

\* ------------------------------------------------------------------ the handlers of main.py
\* The texts of the forwarded messages: none (media without caption) and one text
ForwardTexts == {<<>>, SweepText}

\* What generate_detailed_sarcastic_comment_via_deepseek does: it returns a
\* comment, an empty string (a reply of blanks, stripped), None, or it raises
RemoteOutcomes == {"remote comment", "", "None", "raises"}

\* if comment / if not comment: None and the empty string count as no comment
NoComment(comment) == comment \in {"", "None"}

generate_detailed_sarcastic_comment_NoFallback(remote) ==
    IF remote = "raises" THEN "None" ELSE remote

\* The remote comment if there is one, else the comment of the local templates,
\* which is base_comment + " " + two phrases and so never empty
generate_detailed_sarcastic_comment(remote) ==
    IF remote # "raises" /\ ~NoComment(remote) THEN remote ELSE "local comment"

\* The bot as it starts: both objects of a small positive configuration
InitBot ==
    /\ now = 0
    /\ lastOp = [name |-> "init", user |-> "", result |-> 0]
    /\ AuxInit
    /\ RateLimiterInit(1..MaxWindow, 1..MaxWindow)
    /\ ContextManagerInit(1..MaxEntries, {DEFAULT_CONTEXT_TIMEOUT_MINUTES},
                          {DEFAULT_CONTEXT_MAX_TOKENS})

\* No handler is running
HandlerFree == handler.pc \in {"idle", "done"}

\* The running handler is of this kind and at this statement
At(kind, pc) == handler.kind = kind /\ handler.pc = pc

\* The handler makes a call on the store and moves on
HandlerCall(pc, reply) ==
    /\ handler' = [handler EXCEPT !.pc = pc, !.reply = reply]
    /\ expiredSeen' = SeenAfter(lastOp')
    /\ UNCHANGED <<threads, next_run>>

\* An update arrives and its handler starts
StartHandler(kind, u, text, pc, reply) ==
    /\ HandlerFree
    /\ handler' = [kind |-> kind, user |-> u, pc |-> pc, text |-> text,
                   admit |-> "none", reply |-> reply]
    /\ lastOp' = [name |-> "update", user |-> u, result |-> kind]
    /\ UNCHANGED <<now, rlVars, rlHist, csConfig, csVars, csHist, expiredSeen, threads, next_run>>

\* /analyze arrives
StartAnalyze(u) == StartHandler("analyze", u, <<>>, "is_allowed", "none")

\* if not rate_limiter.is_allowed(user_id)
AnalyzeAdmit ==
    /\ At("analyze", "is_allowed")
    /\ is_allowed(handler.user)
    /\ handler' = [handler EXCEPT !.admit = IF lastOp'.result THEN "yes" ELSE "no",
                                  !.pc = IF lastOp'.result THEN "has_context"
                                                           ELSE "get_wait_time"]
    /\ UNCHANGED <<expiredSeen, threads, next_run>>

\* wait_time = rate_limiter.get_wait_time(user_id), the warning, return
AnalyzeWait ==
    /\ At("analyze", "get_wait_time")
    /\ get_wait_time(handler.user)
    /\ handler' = [handler EXCEPT !.pc = "done", !.reply = "wait"]
    /\ UNCHANGED <<expiredSeen, threads, next_run>>

\* if not context_manager.has_context(user_id)
AnalyzeHasContext ==
    /\ At("analyze", "has_context")
    /\ has_context(handler.user)
    /\ IF lastOp'.result THEN HandlerCall("get_context_text", "none")
                         ELSE HandlerCall("done", "no_context")

\* context_text = context_manager.get_context_text(user_id)
AnalyzeRender ==
    /\ At("analyze", "get_context_text")
    /\ get_context_text(handler.user)
    /\ IF lastOp'.result.absent \/ lastOp'.result.text = <<>>
       THEN HandlerCall("done", "empty")
       ELSE HandlerCall("get_message_count", "none")

\* msg_count = context_manager.get_message_count(user_id), and the first reply
AnalyzeCount ==
    /\ At("analyze", "get_message_count")
    /\ get_message_count(handler.user)
    /\ HandlerCall("generate", "analyzing")

\* comment = generate_detailed_sarcastic_comment(context_text), and the last reply
AnalyzeGenerate ==
    /\ At("analyze", "generate")
    /\ \E remote \in RemoteOutcomes :
          LET comment == generate_detailed_sarcastic_comment(remote)
          IN  /\ lastOp' = [name |-> "generate", user |-> handler.user,
                            remote |-> remote, result |-> comment]
              /\ handler' = [handler EXCEPT !.pc = "done",
                                !.reply = IF NoComment(comment) THEN "failed"
                                                                ELSE "comment"]
    /\ UNCHANGED <<now, rlVars, rlHist, csConfig, csVars, csHist, expiredSeen, threads, next_run>>

\* A forwarded message arrives; one without text or caption is answered at once
StartForward(u, text) ==
    /\ Len(accepted[u]) < MaxEntries
    /\ IF text = <<>> THEN StartHandler("forward", u, text, "done", "media")
                      ELSE StartHandler("forward", u, text, "add_message", "none")

\* context_manager.add_message(user_id, text, message.message_id)
ForwardAdd ==
    /\ At("forward", "add_message")
    /\ \E mid \in MessageIds : add_message(handler.user, handler.text, mid)
    /\ HandlerCall("get_message_count", "none")

\* msg_count = context_manager.get_message_count(user_id), and the reply
ForwardCount ==
    /\ At("forward", "get_message_count")
    /\ get_message_count(handler.user)
    /\ HandlerCall("done", "added")

\* /clear: handle_clear has one call and one reply
HandleClear(u) ==
    /\ HandlerFree
    /\ clear_context(u)
    /\ handler' = [kind |-> "clear", user |-> u, pc |-> "done", text |-> <<>>,
                   admit |-> "none", reply |-> "cleared"]
    /\ expiredSeen' = SeenAfter(lastOp')
    /\ UNCHANGED <<threads, next_run>>

\* cleanup_job runs between two handlers
CleanupJob == HandlerFree /\ cleanup_expired_contexts /\ StoreCall

NextBot ==
    \/ \E u \in Callers : StartAnalyze(u)
    \/ AnalyzeAdmit
    \/ AnalyzeWait
    \/ AnalyzeHasContext
    \/ AnalyzeRender
    \/ AnalyzeCount
    \/ AnalyzeGenerate
    \/ \E u \in Callers, text \in ForwardTexts : StartForward(u, text)
    \/ ForwardAdd
    \/ ForwardCount
    \/ \E u \in Callers : HandleClear(u)
    \/ CleanupJob
    \/ Tick(1, MaxTicksBot) /\ UNCHANGED auxVars

SpecBot == InitBot /\ [][NextBot]_vars

\* The calls that read or change the store for one inbound item, and the generation
ItemCalls == {"add_message", "get_context_text", "has_context", "get_message_count",
              "generate"}

\* C19: a handler calls add_message (forwarded message) or get_context_text and
\* the generation (/analyze) only after is_allowed has returned true for the
\* same item; an item that was rejected, or never put to is_allowed, neither
\* reads nor changes the store.
C19_AdmitFirst ==
    (handler.kind \in {"analyze", "forward"} /\ lastOp.name \in ItemCalls) =>
        handler.admit = "yes"

\* ------------------------------------------------------------------ add_message, statement by statement
\* Two threads call add_message for one user with no lock between them; a thread
\* may be preempted between any two statements, and between reading and storing
\* in the one assignment of line 62.
RaceUser == "u1"

\* The text each thread appends
RaceText == [t \in Threads |->
                IF t = "t1" THEN <<"m", "s", "g", "-", "2">> ELSE <<"m", "s", "g", "-", "3">>]

InitRace ==
    /\ now = 0
    /\ lastOp = [name |-> "init", user |-> "", result |-> 0]
    /\ AuxInit
    /\ RateLimiterInit({RATE_LIMIT_MESSAGES}, {RATE_LIMIT_WINDOW})
    /\ ContextManagerInit(1..MaxEntries, {DEFAULT_CONTEXT_TIMEOUT_MINUTES},
                          {DEFAULT_CONTEXT_MAX_TOKENS})

\* No thread has called yet
NoneCalled == \A t \in Threads : threads[t].pc = "idle"

\* Both calls have returned
AllReturned == \A t \in Threads : threads[t].pc = "done"

\* Earlier messages of the user, appended one call at a time before the race
Earlier ==
    /\ NoneCalled
    /\ Len(accepted[RaceUser]) < MaxEntries
    /\ \E mid \in MessageIds : add_message(RaceUser, SweepText, mid)
    /\ StoreCall

\* Thread t goes on to statement pc, keeping slice as its local value
Goto(t, pc, slice) ==
    /\ threads' = [threads EXCEPT ![t] = [@ EXCEPT !.pc = pc, !.slice = slice]]
    /\ lastOp' = [name |-> "statement", user |-> RaceUser, result |-> pc]
    /\ UNCHANGED <<now, rlVars, rlHist, csConfig, expiredSeen, handler, next_run>>

\* Thread t enters add_message(user_id, text, message_id)
Enter(t) ==
    /\ threads[t].pc = "idle"
    /\ threads' = [threads EXCEPT ![t] = [pc |-> "short", text |-> RaceText[t],
                                          slice |-> <<>>]]
    /\ lastOp' = [name |-> "statement", user |-> RaceUser, result |-> "short"]
    /\ UNCHANGED <<now, rlVars, rlHist, csConfig, csVars, csHist, expiredSeen, handler, next_run>>

\* if not text or len(text.strip()) < 5: return
ShortTest(t) ==
    /\ threads[t].pc = "short"
    /\ Goto(t, IF TooShort(threads[t].text) THEN "done" ELSE "known", <<>>)
    /\ UNCHANGED <<csVars, csHist>>

\* if user_id not in self.user_contexts
KnownTest(t) ==
    /\ threads[t].pc = "known"
    /\ Goto(t, IF RaceUser \notin DOMAIN user_contexts THEN "create" ELSE "append", <<>>)
    /\ UNCHANGED <<csVars, csHist>>

\* self.user_contexts[user_id] = []
Create(t) ==
    /\ threads[t].pc = "create"
    /\ user_contexts' = Put(user_contexts, RaceUser, <<>>)
    /\ Goto(t, "append", <<>>)
    /\ UNCHANGED <<user_last_activity, csHist>>

\* message = ContextMessage(...); self.user_contexts[user_id].append(message)
AppendMessage(t) ==
    /\ threads[t].pc = "append"
    /\ LET message == [text |-> Strip(threads[t].text), timestamp |-> now,
                       message_id |-> CHOOSE mid \in MessageIds : TRUE]
       IN  /\ user_contexts' =
                  [user_contexts EXCEPT ![RaceUser] = Append(@, message)]
           /\ accepted' = [accepted EXCEPT ![RaceUser] = Append(@, message)]
           /\ lastAccepted' = [lastAccepted EXCEPT ![RaceUser] = now]
    /\ Goto(t, "activity", <<>>)
    /\ UNCHANGED user_last_activity

\* self.user_last_activity[user_id] = datetime.now()
Activity(t) ==
    /\ threads[t].pc = "activity"
    /\ user_last_activity' = Put(user_last_activity, RaceUser, now)
    /\ Goto(t, "length", <<>>)
    /\ UNCHANGED <<user_contexts, csHist>>

\* if len(self.user_contexts[user_id]) > config.CONTEXT_MAX_MESSAGES
LengthTest(t) ==
    /\ threads[t].pc = "length"
    /\ Goto(t, IF Len(user_contexts[RaceUser]) > CONTEXT_MAX_MESSAGES THEN "slice"
                                                                       ELSE "done", <<>>)
    /\ UNCHANGED <<csVars, csHist>>

\* the right-hand side self.user_contexts[user_id][-config.CONTEXT_MAX_MESSAGES:]
Slice(t) ==
    /\ threads[t].pc = "slice"
    /\ Goto(t, "store", LastN(user_contexts[RaceUser], CONTEXT_MAX_MESSAGES))
    /\ UNCHANGED <<csVars, csHist>>

\* self.user_contexts[user_id] = <the slice>
Store(t) ==
    /\ threads[t].pc = "store"
    /\ user_contexts' = [user_contexts EXCEPT ![RaceUser] = threads[t].slice]
    /\ Goto(t, "done", <<>>)
    /\ UNCHANGED <<user_last_activity, csHist>>

NextRace ==
    \/ Earlier
    \/ \E t \in Threads : Enter(t)
    \/ \E t \in Threads : ShortTest(t)
    \/ \E t \in Threads : KnownTest(t)
    \/ \E t \in Threads : Create(t)
    \/ \E t \in Threads : AppendMessage(t)
    \/ \E t \in Threads : Activity(t)
    \/ \E t \in Threads : LengthTest(t)
    \/ \E t \in Threads : Slice(t)
    \/ \E t \in Threads : Store(t)

SpecRace == InitRace /\ [][NextRace]_vars

\* The buffer holds the message of thread t
Holds(t) ==
    /\ RaceUser \in DOMAIN user_contexts
    /\ \E i \in DOMAIN user_contexts[RaceUser] :
          user_contexts[RaceUser][i].text = Strip(RaceText[t])

\* C17: when two add_message calls for one user interleave and the buffer has
\* room for two entries, the buffer holds both messages once both calls returned.
C17_BothRetained ==
    (AllReturned /\ CONTEXT_MAX_MESSAGES >= 2) => \A t \in Threads : Holds(t)

\* ------------------------------------------------------------------ the local fallback
\* C21: whatever the remote generation does (comment, nothing, failure), an
\* admitted /analyze with a rendered context ends with a non-empty comment sent
\* to the user, the local one when the remote gave none, and never with the
\* 'could not generate' reply.
C21_FallbackComment ==
    lastOp.name = "generate" =>
        /\ handler.admit = "yes"
        /\ ~NoComment(lastOp.result)
        /\ handler.reply = "comment"
        /\ (lastOp.remote = "raises" \/ NoComment(lastOp.remote)) =>
               lastOp.result = "local comment"

\* The remote generation raised and the user was sent a comment all the same.
C21_Witness ==
    /\ lastOp.name = "generate"
    /\ lastOp.remote = "raises"
    /\ handler.reply = "comment"

\* ------------------------------------------------------------------ totality
\* d[k] and del d[k] on a plain dict raise KeyError when k is missing; min([])
\* raises ValueError. Each predicate below collects the subscripts of one
\* operation, each under the tests that the code puts before it.
KeyFault(d, k) == k \notin DOMAIN d

\* user_messages is a defaultdict(list): self.user_messages[user_id] never faults
is_allowed_faults(u) == FALSE

\* min(user_history) stands behind 'if not user_history: return 0'
get_wait_time_faults(u) == History(u) # <<>> /\ Len(History(u)) = 0

\* self.user_contexts[user_id].append(message) follows the first-touch creation
add_message_faults(u) == FALSE

\* self.user_last_activity[user_id] stands behind 'if user_id not in ...: return True'
_is_context_expired_faults(u) ==
    u \in DOMAIN user_last_activity /\ KeyFault(user_last_activity, u)

clear_context_faults_Unguarded(u) ==
    KeyFault(user_contexts, u) \/ KeyFault(user_last_activity, u)

\* both del statements stand behind 'if user_id in ...'
clear_context_faults(u) ==
    \/ u \in DOMAIN user_contexts /\ KeyFault(user_contexts, u)
    \/ u \in DOMAIN user_last_activity /\ KeyFault(user_last_activity, u)

\* 'user_id not in self.user_contexts or not self.user_contexts[user_id]', then
\* the expiry test and, on expiry, clear_context
has_context_faults(u) ==
    u \in DOMAIN user_contexts /\ user_contexts[u] # <<>> /\
        (_is_context_expired_faults(u) \/ (_is_context_expired(u) /\ clear_context_faults(u)))

\* len(self.user_contexts[user_id]) once has_context has returned True
get_message_count_faults(u) ==
    \/ has_context_faults(u)
    \/ HasBuffer(u) /\ ~_is_context_expired(u) /\ KeyFault(user_contexts, u)

\* the loop over self.user_contexts[user_id], and in _truncate_context
\* messages[-1] behind 'if messages'
get_context_text_faults(u) ==
    \/ has_context_faults(u)
    \/ HasBuffer(u) /\ ~_is_context_expired(u) /\ KeyFault(user_contexts, u)

\* the expiry test of every key of user_contexts, clear_context of the expired
cleanup_expired_contexts_faults ==
    \E u \in DOMAIN user_contexts :
        _is_context_expired_faults(u) \/ (_is_context_expired(u) /\ clear_context_faults(u))

\* Both objects, with a store small enough to be cut and to be truncated
InitTotal ==
    /\ now = 0
    /\ lastOp = [name |-> "init", user |-> "", result |-> 0]
    /\ AuxInit
    /\ RateLimiterInit({MaxAcceptedPair}, {1})
    /\ ContextManagerInit({MaxAcceptedPair}, {MaxTimeout}, TokenBudgets)

\* Every operation of the two objects, called by one user in every order,
\* while time passes by a tick or by more than the timeout
NextTotal ==
    \/ \E u \in Callers :
          Len(admitted[u]) < MaxAcceptedPair /\ is_allowed(u) /\ UNCHANGED auxVars
    \/ \E u \in Callers : get_wait_time(u) /\ UNCHANGED auxVars
    \/ \E u \in Callers, text \in Texts, mid \in MessageIds :
          Len(accepted[u]) <= MaxAcceptedPair /\ add_message(u, text, mid) /\ StoreCall
    \/ \E u \in Callers : get_context_text(u) /\ StoreCall
    \/ \E u \in Callers : has_context(u) /\ StoreCall
    \/ \E u \in Callers : get_message_count(u) /\ StoreCall
    \/ \E u \in Callers : clear_context(u) /\ StoreCall
    \/ cleanup_expired_contexts /\ StoreCall
    \/ Tick(1, 1) /\ UNCHANGED auxVars
    \/ Tick(MaxTimeout * 60 * TicksPerSec + 1, MaxTimeout * 60 * TicksPerSec + 2)
          /\ UNCHANGED auxVars

SpecTotal == InitTotal /\ [][NextTotal]_vars

C23_ActivityOnAppendOnly ==
    [][\A u \in Users :
          IF lastOp'.name = "add_message" /\ lastOp'.stored /\ lastOp'.user = u
          THEN u \in DOMAIN user_last_activity' /\ user_last_activity'[u] = now
          ELSE u \in DOMAIN user_last_activity' =>
                  /\ u \in DOMAIN user_last_activity
                  /\ user_last_activity'[u] = user_last_activity[u]]_vars

\* get_message_count has counted a live buffer some time after its last
\* add_message, and the activity record still shows that add_message.
C23_Witness ==
    /\ lastOp.name = "get_message_count"
    /\ lastOp.result >= 1
    /\ user_last_activity[lastOp.user] < now
    /\ user_last_activity[lastOp.user] = lastAccepted[lastOp.user]

\* ------------------------------------------------------------------ no stale timestamps
\* C24 (as claimed): right after is_allowed(u) or get_wait_time(u) every
\* timestamp of u's history lies within [now - time_window, now].
C24_LogWithinWindow ==
    lastOp.name \in {"is_allowed", "get_wait_time"} =>
        \A i \in DOMAIN History(lastOp.user) :
            /\ History(lastOp.user)[i] >= now - WindowTicks
            /\ History(lastOp.user)[i] <= now

\* C24 (amended): right after is_allowed(u) every timestamp of u's history is
\* later than now - time_window and not later than now; get_wait_time does not
\* prune and may leave older timestamps in place.
C24_LogWithinWindowAfterAdmit ==
    lastOp.name = "is_allowed" =>
        \A i \in DOMAIN History(lastOp.user) :
            /\ History(lastOp.user)[i] > now - WindowTicks
            /\ History(lastOp.user)[i] <= now

\* is_allowed has admitted a call late in a run: beside the new timestamp the
\* history holds an older one that is still inside the window.
C24_Witness ==
    /\ lastOp.name = "is_allowed"
    /\ lastOp.result
    /\ Len(History(lastOp.user)) >= 2
    /\ History(lastOp.user)[1] < now
    /\ History(lastOp.user)[1] > 0

\* ------------------------------------------------------------------ two users side by side
\* Both objects under small settings, used by two users
InitIso ==
    /\ now = 0
    /\ lastOp = [name |-> "init", user |-> "", result |-> 0]
    /\ AuxInit
    /\ RateLimiterInit({MaxAcceptedPair}, {1})
    /\ ContextManagerInit({MaxAcceptedPair}, {MaxTimeout}, {DEFAULT_CONTEXT_MAX_TOKENS})

\* One tick more than the longest timeout
LongWait == MaxTimeout * 60 * TicksPerSec + 1

\* Every operation for either user; time passes tick by tick at first, then by
\* one long wait.
NextIso ==
    \/ \E u \in Users :
          Len(admitted[u]) < MaxAcceptedPair /\ is_allowed(u) /\ UNCHANGED auxVars
    \/ \E u \in Users : get_wait_time(u) /\ UNCHANGED auxVars
    \/ \E u \in Users, mid \in MessageIds :
          Len(accepted[u]) < MaxAcceptedPair /\ add_message(u, SweepText, mid) /\ StoreCall
    \/ \E u \in Users : get_context_text(u) /\ StoreCall
    \/ \E u \in Users : has_context(u) /\ StoreCall
    \/ \E u \in Users : get_message_count(u) /\ StoreCall
    \/ \E u \in Users : clear_context(u) /\ StoreCall
    \/ cleanup_expired_contexts /\ StoreCall
    \/ Tick(1, 1) /\ UNCHANGED auxVars
    \/ Tick(LongWait, LongWait + 1) /\ UNCHANGED auxVars

SpecIso == InitIso /\ [][NextIso]_vars

\* User v's entry of the dictionary d is the same before and after the step
SameEntry(d, e, v) ==
    /\ v \in DOMAIN e <=> v \in DOMAIN d
    /\ v \in DOMAIN d => e[v] = d[v]

\* The calls that take a user id
UserCalls == {"is_allowed", "get_wait_time", "add_message", "get_context_text",
              "has_context", "get_message_count", "clear_context"}

\* The calls on the store
StoreCalls == {"add_message", "get_context_text", "has_context", "get_message_count",
               "clear_context", "cleanup_expired_contexts"}

\* C25: a call for user u leaves every other user's buffer, activity record and
\* rate-limiter history as they were; clearing a context, by clear_context, by
\* expiry found on a read or by the sweep, leaves every rate-limiter history
\* as it was, the user's own included.
C25_Isolation ==
    [][/\ lastOp'.name \in UserCalls =>
             \A v \in Users \ {lastOp'.user} :
                 /\ SameEntry(user_contexts, user_contexts', v)
                 /\ SameEntry(user_last_activity, user_last_activity', v)
                 /\ SameEntry(user_messages, user_messages', v)
       /\ lastOp'.name \in StoreCalls => user_messages' = user_messages]_vars

\* clear_context(u) has returned while the other user holds a buffer and u's own
\* rate-limiter history holds a timestamp.
C25_Witness ==
    /\ lastOp.name = "clear_context"
    /\ History(lastOp.user) # <<>>
    /\ lastAccepted[lastOp.user] >= 0
    /\ \E v \in Users \ {lastOp.user} : HasBuffer(v)


\* ------------------------------------------------------------------ the periodic sweep as a job
\* The job queue's run ends with the last run of cleanup_job
Horizon == MaxSweeps * SweepTicks

\* The store as it is deployed but for its timeout, which is shorter than the
\* job's interval or longer; the job's first run is due after one interval
InitReclaim ==
    /\ now = 0
    /\ lastOp = [name |-> "init", user |-> "", result |-> 0]
    /\ AuxInit
    /\ RateLimiterInit({RATE_LIMIT_MESSAGES}, {RATE_LIMIT_WINDOW})
    /\ ContextManagerInit({MaxAcceptedPair},
                          (1..MaxTimeout) \cup {DEFAULT_CONTEXT_TIMEOUT_MINUTES},
                          {DEFAULT_CONTEXT_MAX_TOKENS})

\* run_repeating runs the job once only
cleanup_job_Once ==
    /\ now = next_run
    /\ cleanup_expired_contexts
    /\ expiredSeen' = SeenAfter(lastOp')
    /\ next_run' = IF next_run = SweepTicks THEN Horizon + SweepTicks
                                            ELSE next_run + SweepTicks
    /\ UNCHANGED <<threads, handler>>

\* The job queue runs cleanup_job when it is due, and schedules its next run
\* one interval later
cleanup_job ==
    /\ now = next_run
    /\ cleanup_expired_contexts
    /\ expiredSeen' = SeenAfter(lastOp')
    /\ next_run' = next_run + SweepTicks
    /\ UNCHANGED <<threads, handler>>

\* Time passes, by a tick, by half an interval or until the job is due, and
\* never past a run of the job that is due
Wait ==
    \E d \in {1, SweepTicks \div 2, next_run - now} :
        /\ d > 0
        /\ d = 1 => now % (SweepTicks \div 2) = 0
        /\ now + d <= next_run
        /\ Tick(d, Horizon)
        /\ UNCHANGED auxVars

\* A user appends, nobody reads, and the job queue runs cleanup_job
NextReclaim ==
    \/ \E u \in Callers, mid \in MessageIds :
          Len(accepted[u]) < MaxAcceptedPair /\ add_message(u, SweepText, mid) /\ StoreCall
    \/ cleanup_job
    \/ Wait

\* Time passes and the job queue runs the job that is due
SpecReclaim ==
    InitReclaim /\ [][NextReclaim]_vars /\ WF_vars(Wait) /\ WF_vars(cleanup_job)

\* The user has a buffer that the job will find expired before the run ends
Reclaimable(u) ==
    /\ u \in DOMAIN user_contexts
    /\ u \in DOMAIN user_last_activity
    /\ user_last_activity[u] + TimeoutTicks + SweepTicks <= Horizon

\* Neither a buffer nor an activity record is left of the user
Reclaimed(u) == u \notin DOMAIN user_contexts /\ u \notin DOMAIN user_last_activity

\* The user has just appended again
AppendedAgain(u) ==
    lastOp.name = "add_message" /\ lastOp.user = u /\ lastOp.stored

\* C26: a user who has a buffer, appends no more and is not read loses the
\* buffer and the activity record to cleanup_job, which runs every 600 s: the
\* buffer is removed eventually, and no later than the first run of the job
\* that finds it older than the timeout.
C26_Reclamation ==
    /\ \A u \in Users : Reclaimable(u) ~> (Reclaimed(u) \/ AppendedAgain(u))
    /\ [](lastOp.name = "cleanup_expired_contexts" =>
             \A u \in DOMAIN user_contexts :
                 /\ u \in DOMAIN user_last_activity
                 /\ now - user_last_activity[u] <= TimeoutTicks)

\* The job removed a buffer of the deployed timeout that nobody had read,
\* after an earlier run had left it in place.
C26_Witness ==
    /\ lastOp.name = "cleanup_expired_contexts"
    /\ lastOp.removed # {}
    /\ CONTEXT_TIMEOUT_MINUTES = DEFAULT_CONTEXT_TIMEOUT_MINUTES
    /\ \E u \in lastOp.removed : now - lastAccepted[u] > TimeoutTicks + SweepTicks \div 2


\* ------------------------------------------------------------------ the sweep, statement by statement
\* The frame of a call of cleanup_expired_contexts: the iterator over
\* self.user_contexts.keys() (the keys it has still to yield and the size the
\* dictionary had when it was created), the list expired_users, the position
\* of the for loop in that list, and the users the call has cleared
SweepFrame(pc, todo, size, expired_users, i, cleared) ==
    [kind |-> "cleanup_expired_contexts", pc |-> pc, todo |-> todo, size |-> size,
     expired_users |-> expired_users, i |-> i, cleared |-> cleared]

Sweeping == handler # IdleHandler

\* The elements of a list
Elements(seq) == {seq[k] : k \in 1..Len(seq)}

\* cleanup_job starts: the comprehension creates the iterator
SweepStart ==
    /\ handler = IdleHandler
    /\ handler' = SweepFrame("iterating", DOMAIN user_contexts,
                              Cardinality(DOMAIN user_contexts), <<>>, 1, {})
    /\ lastOp' = [name |-> "sweep", user |-> "", result |-> "iterating"]
    /\ UNCHANGED <<now, rlVars, rlHist, csConfig, csVars, csHist, expiredSeen, threads, next_run>>

\* for user_id in self.user_contexts.keys(): self.clear_context(user_id) when
\* the user is expired, with no list in between
SweepNext_ClearsWhileIterating ==
    /\ Sweeping
    /\ handler.pc = "iterating"
    /\ IF Cardinality(DOMAIN user_contexts) # handler.size
       THEN /\ handler' = [handler EXCEPT !.pc = "raised"]
            /\ lastOp' = [name |-> "sweep", user |-> "", result |-> "RuntimeError"]
            /\ UNCHANGED <<csVars, csHist>>
       ELSE IF handler.todo \cap DOMAIN user_contexts = {}
       THEN /\ handler' = [handler EXCEPT !.pc = "removing"]
            /\ lastOp' = [name |-> "sweep", user |-> "", result |-> "removing"]
            /\ UNCHANGED <<csVars, csHist>>
       ELSE \E u \in handler.todo \cap DOMAIN user_contexts :
            /\ handler' = [handler EXCEPT
                              !.todo = @ \ {u},
                              !.cleared = IF _is_context_expired(u) THEN @ \cup {u} ELSE @]
            /\ lastOp' = [name |-> "sweep", user |-> u, result |-> "iterating"]
            /\ IF _is_context_expired(u) THEN ClearEffect({u})
                                          ELSE UNCHANGED <<csVars, csHist>>
    /\ UNCHANGED <<now, rlVars, rlHist, csConfig, expiredSeen, threads, next_run>>

\* One step of the comprehension: the iterator raises RuntimeError when the
\* dictionary has changed size, ends when it has no key left, and yields a key
\* otherwise, which the comprehension keeps when the user is expired
SweepNext ==
    /\ Sweeping
    /\ handler.pc = "iterating"
    /\ IF Cardinality(DOMAIN user_contexts) # handler.size
       THEN /\ handler' = [handler EXCEPT !.pc = "raised"]
            /\ lastOp' = [name |-> "sweep", user |-> "", result |-> "RuntimeError"]
       ELSE IF handler.todo \cap DOMAIN user_contexts = {}
       THEN /\ handler' = [handler EXCEPT !.pc = "removing"]
            /\ lastOp' = [name |-> "sweep", user |-> "", result |-> "removing"]
       ELSE \E u \in handler.todo \cap DOMAIN user_contexts :
            /\ handler' = [handler EXCEPT
                              !.todo = @ \ {u},
                              !.expired_users = IF _is_context_expired(u)
                                                THEN Append(@, u) ELSE @]
            /\ lastOp' = [name |-> "sweep", user |-> u, result |-> "iterating"]
    /\ UNCHANGED <<now, rlVars, rlHist, csConfig, csVars, csHist, expiredSeen, threads, next_run>>

\* for user_id in expired_users: self.clear_context(user_id)
SweepRemove ==
    /\ Sweeping
    /\ handler.pc = "removing"
    /\ handler.i <= Len(handler.expired_users)
    /\ ClearEffect({handler.expired_users[handler.i]})
    /\ handler' = [handler EXCEPT !.i = @ + 1,
                                  !.cleared = @ \cup {handler.expired_users[handler.i]}]
    /\ lastOp' = [name |-> "sweep", user |-> handler.expired_users[handler.i],
                  result |-> "removing"]
    /\ UNCHANGED <<now, rlVars, rlHist, csConfig, expiredSeen, threads, next_run>>

\* The call returns None, or ends with the iterator's RuntimeError
SweepReturn ==
    /\ Sweeping
    /\ \/ handler.pc = "raised"
       \/ handler.pc = "removing" /\ handler.i > Len(handler.expired_users)
    /\ handler' = IdleHandler
    /\ lastOp' = [name |-> "cleanup_expired_contexts", user |-> "",
                  removed |-> handler.cleared,
                  result |-> IF handler.pc = "raised" THEN "RuntimeError" ELSE "None"]
    /\ UNCHANGED <<now, rlVars, rlHist, csConfig, csVars, csHist, expiredSeen, threads, next_run>>

InitSnap ==
    /\ now = 0
    /\ lastOp = [name |-> "init", user |-> "", result |-> 0]
    /\ AuxInit
    /\ RateLimiterInit({RATE_LIMIT_MESSAGES}, {RATE_LIMIT_WINDOW})
    /\ ContextManagerInit({MaxAcceptedPair}, {MaxTimeout}, {DEFAULT_CONTEXT_MAX_TOKENS})

\* A call on the store made by another thread than the sweep's
OtherCall == expiredSeen' = SeenAfter(lastOp') /\ UNCHANGED <<threads, handler, next_run>>

\* The sweep runs statement by statement while other operations insert into
\* the store and delete from it
NextSnap ==
    \/ SweepStart
    \/ SweepNext
    \/ SweepRemove
    \/ SweepReturn
    \/ \E u \in Users, mid \in MessageIds :
          Len(accepted[u]) < MaxAcceptedPair /\ add_message(u, SweepText, mid) /\ OtherCall
    \/ \E u \in Users : clear_context(u) /\ OtherCall
    \/ \E u \in Users : has_context(u) /\ OtherCall
    \/ Tick(1, 1) /\ UNCHANGED auxVars
    \/ Tick(LongWait, LongWait + 1) /\ UNCHANGED auxVars

SpecSnap == InitSnap /\ [][NextSnap]_vars

\* C27: cleanup_expired_contexts completes the list expired_users before it
\* removes anything; it removes only users of that list; and no step of the
\* call deletes from user_contexts while the call iterates over it, whatever
\* other operations insert or delete between the statements of the call.
C27_SnapshotBeforeRemoval ==
    [][(Sweeping /\ handler' # handler) =>
          /\ handler.pc = "iterating" => /\ UNCHANGED csVars
                                         /\ handler.cleared = {}
          /\ DOMAIN user_contexts \ DOMAIN user_contexts' \subseteq Elements(handler.expired_users)
          /\ DOMAIN user_last_activity \ DOMAIN user_last_activity'
                 \subseteq Elements(handler.expired_users)
          /\ (handler' # IdleHandler /\ handler'.pc # "iterating") =>
                 handler'.expired_users = handler.expired_users]_vars

\* The sweep has removed one user of its list, and the other user of the list
\* has appended since the list was made.
C27_Witness ==
    /\ Sweeping
    /\ handler.pc = "removing"
    /\ handler.cleared # {}
    /\ handler.i <= Len(handler.expired_users)
    /\ HasBuffer(handler.expired_users[handler.i])
    /\ ~_is_context_expired(handler.expired_users[handler.i])


\* ------------------------------------------------------------------ deepseek_client.py
\* len(text.strip()) < 10 in generate_comment, < 20 in generate_detailed_comment
Methods == {"generate_comment", "generate_detailed_comment"}

\* What requests.post and the reading of the response come to in one attempt:
\* a status 200 with a body that holds choices[0].message.content, one whose
\* JSON lacks it, one that is not JSON; the other statuses; the exceptions
Outcomes == {"200", "200 no content", "200 not json", "429", "401", "500", "404",
             "Timeout", "RequestException"}

\* The outcomes after which the loop sleeps and continues
Retryable == {"429", "500", "Timeout", "RequestException"}

\* The frame of a call: its arguments, the loop variable, the requests sent,
\* the outcome of the latest one, the waits slept and what the call ends with
ClientFrame(method, retries, pc, attempt, requests, outcome, slept, result) ==
    [kind |-> method, retries |-> retries, pc |-> pc, attempt |-> attempt,
     requests |-> requests, outcome |-> outcome, slept |-> slept, result |-> result]

InClient == handler # IdleHandler

\* time.sleep(2 ** attempt), in ticks
Backoff(attempt) == (2 ^ attempt) * TicksPerSec

\* The longest a call sleeps in all
ClientHorizon == 2 * Backoff(MaxRetries + 1)

\* The call starts: it returns None at once without a key or on a short text
ClientCall(method, retries, has_key, long_enough) ==
    /\ handler = IdleHandler
    /\ now + Backoff(MaxRetries + 1) <= ClientHorizon
    /\ handler' = IF has_key /\ long_enough
                  THEN ClientFrame(method, retries, "request", 0, 0, "none", <<>>, "none")
                  ELSE ClientFrame(method, retries, "returned", 0, 0, "none", <<>>, "None")
    /\ lastOp' = [name |-> "call", user |-> "", result |-> method]
    /\ UNCHANGED <<now, rlVars, rlHist, csConfig, csVars, csHist, expiredSeen, threads, next_run>>

\* The loop continues after an error however many attempts were made
AfterError_AlwaysRetries(outcome) ==
    [handler EXCEPT !.pc = "sleep", !.requests = @ + 1, !.outcome = outcome]

\* After a retryable error: sleep and continue while attempt < retries,
\* return None otherwise
AfterError(outcome) ==
    IF handler.attempt < handler.retries
    THEN [handler EXCEPT !.pc = "sleep", !.requests = @ + 1, !.outcome = outcome]
    ELSE [handler EXCEPT !.pc = "returned", !.requests = @ + 1, !.outcome = outcome,
                         !.result = "None"]

\* One iteration of for attempt in range(retries + 1): the request and the
\* branch its outcome takes. A body that is not JSON makes response.json()
\* raise: a ValueError that leaves the call, or, where the library derives the
\* error from RequestException, an error handled as such
ClientRequest(outcome) ==
    /\ InClient
    /\ handler.pc = "request"
    /\ handler.attempt <= handler.retries
    /\ \/ /\ outcome = "200"
          /\ handler' = [handler EXCEPT !.pc = "returned", !.requests = @ + 1,
                                        !.outcome = outcome, !.result = "comment"]
       \/ /\ outcome = "200 no content"
          /\ handler' = [handler EXCEPT !.pc = "raised", !.requests = @ + 1,
                                        !.outcome = outcome, !.result = "KeyError"]
       \/ /\ outcome = "200 not json"
          /\ \/ handler' = [handler EXCEPT !.pc = "raised", !.requests = @ + 1,
                                           !.outcome = outcome, !.result = "ValueError"]
             \/ handler' = AfterError(outcome)
       \/ /\ outcome \in Retryable
          /\ handler' = AfterError(outcome)
       \/ /\ outcome \in {"401", "404"}
          /\ handler' = [handler EXCEPT !.pc = "returned", !.requests = @ + 1,
                                        !.outcome = outcome, !.result = "None"]
    /\ lastOp' = [name |-> "request", user |-> "", result |-> outcome]
    /\ UNCHANGED <<now, rlVars, rlHist, csConfig, csVars, csHist, expiredSeen, threads, next_run>>

\* time.sleep(wait_time); continue
ClientSleep ==
    /\ InClient
    /\ handler.pc = "sleep"
    /\ Tick(Backoff(handler.attempt), now + Backoff(handler.attempt))
    /\ handler' = [handler EXCEPT !.pc = "request", !.attempt = @ + 1,
                                  !.slept = Append(@, Backoff(handler.attempt))]
    /\ UNCHANGED <<expiredSeen, threads, next_run>>

\* range(retries + 1) is exhausted: the return None after the loop
ClientExhausted ==
    /\ InClient
    /\ handler.pc = "request"
    /\ handler.attempt > handler.retries
    /\ handler' = [handler EXCEPT !.pc = "returned", !.result = "None"]
    /\ lastOp' = [name |-> "request", user |-> "", result |-> "none"]
    /\ UNCHANGED <<now, rlVars, rlHist, csConfig, csVars, csHist, expiredSeen, threads, next_run>>

\* The call ends, with a return value or with the exception
ClientEnd ==
    /\ InClient
    /\ handler.pc \in {"returned", "raised"}
    /\ handler' = IdleHandler
    /\ lastOp' = [name |-> handler.kind, user |-> "", retries |-> handler.retries,
                  requests |-> handler.requests, outcome |-> handler.outcome,
                  slept |-> handler.slept, raised |-> handler.pc = "raised",
                  result |-> handler.result]
    /\ UNCHANGED <<now, rlVars, rlHist, csConfig, csVars, csHist, expiredSeen, threads, next_run>>

InitClient ==
    /\ now = 0
    /\ lastOp = [name |-> "init", user |-> "", result |-> 0]
    /\ AuxInit
    /\ RateLimiterInit({RATE_LIMIT_MESSAGES}, {RATE_LIMIT_WINDOW})
    /\ ContextManagerInit({DEFAULT_CONTEXT_MAX_MESSAGES}, {DEFAULT_CONTEXT_TIMEOUT_MINUTES},
                          {DEFAULT_CONTEXT_MAX_TOKENS})

\* Calls of the client, one after the other, with every outcome of a request
NextClient ==
    \/ \E method \in Methods, retries \in -1..MaxRetries, has_key, long_enough \in BOOLEAN :
          ClientCall(method, retries, has_key, long_enough)
    \/ \E outcome \in Outcomes : ClientRequest(outcome)
    \/ ClientSleep
    \/ ClientExhausted
    \/ ClientEnd

SpecClient == InitClient /\ [][NextClient]_vars

\* The waits of a call that slept n times: 2 ** 0, 2 ** 1, ...
Backoffs(n) == [k \in 1..n |-> Backoff(k - 1)]

\* A call has ended
Ended == lastOp.name \in Methods

\* The request loop ends within retries + 1 requests, and the call slept
\* 2 ** attempt seconds before each request but the first (holds of the code)
BoundedRequests ==
    /\ InClient => /\ handler.requests <= Max(handler.retries + 1, 0)
                   /\ handler.requests <= handler.attempt + 1
                   /\ handler.slept = Backoffs(handler.attempt)
                   /\ handler.pc = "sleep" => /\ handler.attempt < handler.retries
                                              /\ handler.outcome \in Retryable \cup {"200 not json"}
    /\ Ended => /\ lastOp.requests <= Max(lastOp.retries + 1, 0)
                /\ lastOp.outcome \in {"401", "404"} => lastOp.result = "None"
                /\ lastOp.outcome = "200" => lastOp.result = "comment"

\* C28 (as claimed): a call sends at most retries + 1 requests; it sleeps
\* 2 ** attempt seconds and retries only after 429, a status >= 500, a timeout
\* or a request exception; it returns the comment on the first 200, and None
\* once the attempts are exhausted or on a status that is not retried.
C28_LoopTerminates ==
    /\ BoundedRequests
    /\ InClient /\ handler.pc = "sleep" => handler.outcome \in Retryable
    /\ Ended => /\ ~lastOp.raised
                /\ lastOp.result \in {"comment", "None"}
                /\ lastOp.outcome \in {"200", "200 no content", "200 not json"} =>
                       lastOp.result = "comment"
                /\ lastOp.outcome \notin {"200", "200 no content", "200 not json"} =>
                       lastOp.result = "None"

\* A call of default retries ended after three requests and the waits 1 s and 2 s
C28_Witness ==
    /\ Ended
    /\ lastOp.retries = 2
    /\ lastOp.requests = 3
    /\ lastOp.slept = <<Backoff(0), Backoff(1)>>
    /\ lastOp.result = "None"


\* ------------------------------------------------------------------ the two dictionaries together
\* C29: after every operation of the store the users with a buffer are the
\* users with an activity record, and no stored buffer is the empty list.
C29_BufferIffActivity ==
    /\ DOMAIN user_contexts = DOMAIN user_last_activity
    /\ \A u \in DOMAIN user_contexts : user_contexts[u] # <<>>

\* A text too short was refused for a user whose earlier buffer is gone: the
\* call left neither an empty buffer nor an activity record.
C29_Witness ==
    /\ lastOp.name = "add_message"
    /\ ~lastOp.stored
    /\ lastAccepted[lastOp.user] >= 0
    /\ lastOp.user \notin DOMAIN user_contexts
    /\ lastOp.user \notin DOMAIN user_last_activity


\* ------------------------------------------------------------------ appending to an expired buffer
\* C30 (as claimed): an accepted add_message for a user whose buffer is
\* already expired, though not yet cleared by a read or by the sweep, leaves a
\* buffer of the new entry alone, so that no buffer holds an entry appended
\* more than the timeout before the entry that follows it.
C30_ExpiredNotRevived ==
    [][(/\ lastOp'.name = "add_message"
        /\ lastOp'.stored
        /\ lastOp'.user \in DOMAIN user_contexts
        /\ _is_context_expired(lastOp'.user)) =>
          LET buf == user_contexts'[lastOp'.user]
          IN  /\ Len(buf) = 1
              /\ buf[1].timestamp = now'
              /\ \A i \in 1..(Len(buf) - 1) :
                     buf[i + 1].timestamp - buf[i].timestamp <= TimeoutTicks]_vars


\* ------------------------------------------------------------------ the labels of a truncated rendering
\* The texts the labelled buffers are made of
LabelTexts == {SweepText, <<"m", "s", "g", "-", "2">>}

InitLabels ==
    /\ now = 0
    /\ lastOp = [name |-> "init", user |-> "", result |-> 0]
    /\ AuxInit
    /\ RateLimiterInit({RATE_LIMIT_MESSAGES}, {RATE_LIMIT_WINDOW})
    /\ ContextManagerInit({MaxLabelled}, {DEFAULT_CONTEXT_TIMEOUT_MINUTES}, LabelBudgets)

\* One user appends texts, some of them within one reading of the clock, and
\* reads the rendering
NextLabels ==
    \/ \E u \in Callers, text \in LabelTexts, mid \in MessageIds :
          Len(accepted[u]) <= MaxLabelled /\ add_message(u, text, mid) /\ StoreCall
    \/ \E u \in Callers : get_context_text(u) /\ StoreCall
    \/ Tick(1, TicksPerSec) /\ UNCHANGED auxVars

SpecLabels == InitLabels /\ [][NextLabels]_vars

\* The rendering of the last i messages, each labelled with its position in
\* the whole buffer
LabelledSuffix(messages, i) ==
    LET tail == LastN(messages, i)
    IN  Join([k \in 1..i |-> Block(Len(messages) - i + k, tail[k])])

\* The number of newest messages whose labelled rendering fits max_chars (0: none)
FittingCount(messages, max_chars) ==
    LET fitting == {i \in 1..Len(messages) : Len(LabelledSuffix(messages, i)) <= max_chars}
    IN  IF fitting = {} THEN 0 ELSE CHOOSE i \in fitting : \A j \in fitting : j <= i

\* get_context_text has just returned a truncated rendering of the last i >= 1
\* messages of the user's buffer
TruncatedRead ==
    /\ lastOp.name = "get_context_text"
    /\ ~lastOp.result.absent
    /\ Len(FullText(user_contexts[lastOp.user])) \div CharsPerToken > CONTEXT_MAX_TOKENS
    /\ FittingCount(user_contexts[lastOp.user], maxRenderedSize) >= 1

\* The messages of the list differ from one another
AllDistinct(messages) ==
    \A j, k \in 1..Len(messages) : j # k => messages[j] # messages[k]

\* When the rendered messages differ from one another, each block carries its
\* message's position in the buffer (holds of the code)
LabelsOfDistinct ==
    TruncatedRead =>
        LET buf == user_contexts[lastOp.user]
            i == FittingCount(buf, maxRenderedSize)
        IN  AllDistinct(LastN(buf, i)) => lastOp.result.text = LabelledSuffix(buf, i)

\* C31 (as claimed): in a truncated rendering of the last i of n messages the
\* k-th block is labelled n - i + k, also when messages of the buffer are
\* equal in text, timestamp and message_id.
C31_SuffixLabels ==
    TruncatedRead =>
        LET buf == user_contexts[lastOp.user]
        IN  lastOp.result.text = LabelledSuffix(buf, FittingCount(buf, maxRenderedSize))

====
